---- MODULE Spec2Model ----
(***************************************************************************)
(* Model of src/GDB.py: the budget dashboard's data pipeline.              *)
(*                                                                         *)
(* One run of the script is a sequence of steps: load_data on the CSV      *)
(* document, the sidebar (year bounds, slider, year filter), the overview  *)
(* tab, the department tab and the comparison tab.  An uncaught exception  *)
(* ends the run where it is raised.  A widget change reruns the script     *)
(* from the top with load_data's cached result.                            *)
(*                                                                         *)
(* Year labels are the CSV header texts: strings of decimal digits,        *)
(* modelled as sequences of digits.  The code compares them as strings     *)
(* (min, max, sort_values) and converts with int() and str().              *)
(***************************************************************************)
EXTENDS Integers, Sequences, FiniteSets

VARIABLES doc, stable_sort, pc, err, errLine, df, long_df, year_cols, year_range,
          selected_years, filtered_long, total_by_year, headline, top5,
          dept, growth, delta, multi_depts, compare_df, latest_pivot

vars == <<doc, stable_sort, pc, err, errLine, df, long_df, year_cols, year_range,
          selected_years, filtered_long, total_by_year, headline, top5,
          dept, growth, delta, multi_depts, compare_df, latest_pivot>>

(***************************************************************************)
(* Bounds of the model and constants of the program.                       *)
(***************************************************************************)
\* Largest number of budget cells (departments x year columns) of a document.
MaxCells == 4

\* .head(5) of the overview's ranking.
TopN == 5

\* The year columns a document may have, in the document's order (as numbers;
\* the header text of year y is Str(y)): none, one, two of one width in
\* either order, and headers of different widths.
YearHeaders == {<<>>, <<10>>, <<1, 9>>, <<9, 10>>, <<10, 95>>, <<95, 10>>,
                <<1, 9, 10, 95>>}

\* Positions the user may drag the slider's ends to (2 and 11 are years with
\* no column).
SliderStops == {1, 2, 9, 10, 11, 95}

\* Department names, in alphabetical order.
DeptNames == <<"A", "B", "C", "D", "E", "F">>

\* Texts of a budget cell: empty, not a number, and two numbers.
CellTexts == {"", "x", "0", "100"}

\* The numeric texts and the number each denotes.
NumText == [t \in {"0", "100"} |-> IF t = "0" THEN 0 ELSE 100]

(***************************************************************************)
(* Strings of digits: str(), int() and string comparison.                  *)
(***************************************************************************)
RECURSIVE Str(_)
Str(n) == IF n < 10 THEN <<n>> ELSE Append(Str(n \div 10), n % 10)

RECURSIVE ToInt(_)
ToInt(s) == IF Len(s) = 0 THEN 0
            ELSE 10 * ToInt(SubSeq(s, 1, Len(s) - 1)) + s[Len(s)]

\* s < t as Python compares two strings: character by character, a proper
\* prefix first.
RECURSIVE StrLess(_, _)
StrLess(s, t) ==
    IF Len(t) = 0 THEN FALSE
    ELSE IF Len(s) = 0 THEN TRUE
    ELSE IF s[1] # t[1] THEN s[1] < t[1]
    ELSE StrLess(Tail(s), Tail(t))

\* min() and max() of a non-empty collection of strings.
StrMin(S) == CHOOSE s \in S : \A t \in S : ~StrLess(t, s)
StrMax(S) == CHOOSE s \in S : \A t \in S : ~StrLess(s, t)

Range(s) == {s[i] : i \in 1..Len(s)}

\* Position of a department name in alphabetical order.
NameIdx(n) == CHOOSE i \in 1..Len(DeptNames) : DeptNames[i] = n

(***************************************************************************)
(* Floats: a number (a fraction n/d in lowest terms), NaN, or None.        *)
(***************************************************************************)
RECURSIVE Gcd(_, _)
Gcd(a, b) == IF b = 0 THEN a ELSE Gcd(b, a % b)

Abs(n) == IF n < 0 THEN -n ELSE n

F(n) == [k |-> "num", n |-> n, d |-> 1]
NaN == [k |-> "nan", n |-> 0, d |-> 1]
None == [k |-> "none", n |-> 0, d |-> 1]

\* n/d for d # 0.
Frac(n, d) ==
    LET g == Gcd(Abs(n), Abs(d))
        s == IF d < 0 THEN -1 ELSE 1
    IN [k |-> "num", n |-> (s * n) \div g, d |-> Abs(d) \div g]

\* x - y on floats holding whole numbers.
FSub(x, y) == IF x.k = "nan" \/ y.k = "nan" THEN NaN ELSE F(x.n - y.n)

\* x / y * 100 on numpy floats holding whole numbers: a division by zero is
\* an infinity, or NaN for 0 / 0, not an exception.
FPct(x, y) ==
    IF x.k = "nan" \/ y.k = "nan" THEN NaN
    ELSE IF y.n = 0
    THEN IF x.n = 0 THEN NaN ELSE [k |-> "inf", n |-> IF x.n < 0 THEN -1 ELSE 1, d |-> 1]
    ELSE Frac(x.n * 100, y.n)

(***************************************************************************)
(* The documents.                                                          *)
(***************************************************************************)
\* The elements of a set of numbers as a sequence in ascending order.
RECURSIVE Ascending(_)
Ascending(S) ==
    IF S = {} THEN <<>>
    ELSE LET m == CHOOSE x \in S : \A y \in S : x <= y
         IN <<m>> \o Ascending(S \ {m})

\* The zero-byte document.
EmptyDoc == [empty |-> TRUE, cols |-> <<>>, names |-> <<>>, cells |-> <<>>]

\* A document: its year headers (after the first column), its departments
\* (first column, unique) and its budget cells, cells[i][j] for row i, column j.
DocsOf(c, n) ==
    {[empty |-> FALSE, cols |-> c, names |-> n, cells |-> m] :
        m \in [1..Len(n) -> [1..Len(c) -> CellTexts]]}

ColChoices == {[j \in 1..Len(h) |-> Str(h[j])] : h \in YearHeaders}

NameChoices(c) ==
    {SubSeq(DeptNames, 1, d) :
        d \in {e \in 0..Len(DeptNames) : e * Len(c) <= MaxCells /\ e <= MaxCells}}

Docs == {EmptyDoc} \cup
        UNION {UNION {DocsOf(c, n) : n \in NameChoices(c)} : c \in ColChoices}

(***************************************************************************)
(* load_data: read_csv, melt, to_numeric(errors="coerce"), dropna.         *)
(***************************************************************************)
\* pd.to_numeric(errors="coerce") on one cell: the number, or NaN.
to_numeric(t) == IF t \in DOMAIN NumText THEN F(NumText[t]) ELSE NaN

\* df.melt: one candidate row per cell, column by column, the rows of a column
\* in the document's order.
melt(d) ==
    LET D == Len(d.names)
    IN [p \in 1..(D * Len(d.cols)) |->
          LET j == ((p - 1) \div D) + 1
              i == ((p - 1) % D) + 1
          IN [Department |-> d.names[i], Year |-> d.cols[j],
              Budget |-> to_numeric(d.cells[i][j])]]

\* A bug dropna might have: dropping every row of a department that has a
\* NaN, instead of the rows that hold one.
dropna_whole_department(rows) ==
    LET Bad == {r.Department : r \in {x \in Range(rows) : x.Budget.k = "nan"}}
        Keep(r) == r.Department \notin Bad
    IN SelectSeq(rows, Keep)

\* long_df.dropna(subset=["Budget"]): the rows whose Budget is not NaN.
dropna(rows) ==
    LET Keep(r) == r.Budget.k # "nan"
    IN SelectSeq(rows, Keep)

\* The records of long_df hold the budget as a number.
load_data(d) ==
    LET kept == dropna(melt(d))
    IN [df |-> [cols |-> d.cols, names |-> d.names, cells |-> d.cells],
        long_df |-> [p \in 1..Len(kept) |->
                        [Department |-> kept[p].Department,
                         Year |-> kept[p].Year,
                         Budget |-> kept[p].Budget.n]],
        year_cols |-> d.cols]

(***************************************************************************)
(* The year filter.                                                        *)
(***************************************************************************)
\* A bug the filter might have: range(a, b), leaving the upper bound out.
SelectedYearsExclusive(a, b) == [p \in 1..(b - a) |-> Str(a + p - 1)]

\* [str(y) for y in range(year_range[0], year_range[1] + 1)]
SelectedYears(a, b) == [p \in 1..(b - a + 1) |-> Str(a + p - 1)]

\* long_df[long_df["Year"].isin(selected_years)]
FilterYears(recs, a, b) ==
    LET sel == Range(SelectedYears(a, b))
        Keep(r) == r.Year \in sel
    IN SelectSeq(recs, Keep)

(***************************************************************************)
(* groupby / sum / sort_values.                                            *)
(***************************************************************************)
RECURSIVE SumBudget(_)
SumBudget(recs) ==
    IF Len(recs) = 0 THEN 0 ELSE recs[1].Budget + SumBudget(Tail(recs))

\* The elements of a set of strings as a sequence in ascending string order.
RECURSIVE SortStr(_)
SortStr(S) ==
    IF S = {} THEN <<>>
    ELSE LET m == StrMin(S) IN <<m>> \o SortStr(S \ {m})

\* The elements of a set of department names in alphabetical order.
RECURSIVE SortNames(_)
SortNames(S) ==
    IF S = {} THEN <<>>
    ELSE LET m == CHOOSE x \in S : \A y \in S : NameIdx(x) <= NameIdx(y)
         IN <<m>> \o SortNames(S \ {m})

\* groupby("Year", as_index=False)["Budget"].sum().sort_values("Year"):
\* Year is a column of strings.
TotalByYear(recs) ==
    LET keys == SortStr({r.Year : r \in Range(recs)})
        Of(y) == LET Is(r) == r.Year = y IN SelectSeq(recs, Is)
    IN [p \in 1..Len(keys) |-> [Year |-> keys[p], Budget |-> SumBudget(Of(keys[p]))]]

\* groupby("Department", as_index=False)["Budget"].sum(): one row per
\* department, the departments in alphabetical order.
SumByDepartment(recs) ==
    LET keys == SortNames({r.Department : r \in Range(recs)})
        Of(n) == LET Is(r) == r.Department = n IN SelectSeq(recs, Is)
    IN [p \in 1..Len(keys) |-> [Department |-> keys[p], Budget |-> SumBudget(Of(keys[p]))]]

\* sort_values("Budget", ascending=False) with the default kind="quicksort",
\* which is not stable: the order of rows with equal budgets depends on the
\* numpy build.  A build either keeps them in their order or, standing for
\* the builds that do not, reverses them.
SortBudgetDescending(rows, stable) ==
    LET n == Len(rows)
        Before(j, i) == \/ rows[j].Budget > rows[i].Budget
                        \/ /\ rows[j].Budget = rows[i].Budget
                           /\ IF stable THEN j < i ELSE j > i
        Pos(i) == 1 + Cardinality({j \in 1..n : Before(j, i)})
    IN [p \in 1..n |-> rows[CHOOSE i \in 1..n : Pos(i) = p]]

\* .head(n)
head(rows, n) == SubSeq(rows, 1, IF Len(rows) < n THEN Len(rows) ELSE n)

\* total_by_year[total_by_year["Year"] == y]["Budget"]: the matching budgets.
BudgetsOfYear(tby, y) ==
    LET Is(r) == r.Year = y IN SelectSeq(tby, Is)

(***************************************************************************)
(* compute_growth.                                                         *)
(***************************************************************************)
\* row[year_cols].values.astype(float) on one cell: numeric text and numbers
\* convert, an empty cell is NaN, any other text raises ValueError.
CanFloat(t) == t \in DOMAIN NumText \/ t = ""
AsFloat(t) == IF t \in DOMAIN NumText THEN F(NumText[t]) ELSE NaN

\* compute_growth on the converted values.
compute_growth(values) ==
    LET start == values[1]
        end == values[Len(values)]
        absolute_change == FSub(end, start)
        pct == IF start # F(0) THEN FPct(absolute_change, start) ELSE None
    IN [start |-> start, end |-> end, abs_change |-> absolute_change,
        pct_change |-> pct]

\* The department's row of df.
RowOf(table, name) ==
    table.cells[CHOOSE i \in 1..Len(table.names) : table.names[i] = name]

\* A bug the department tab might have: handing compute_growth the selected
\* years' columns instead of year_cols.
GrowthColumnsSelected(cols, sel) ==
    {j \in 1..Len(cols) : cols[j] \in Range(sel)}

\* The columns compute_growth reads: all of year_cols.
GrowthColumns(cols, sel) == 1..Len(cols)

\* The delta text of the "Latest Year Budget" metric.
DeltaText(g) ==
    IF g.pct_change # None
    THEN [text |-> "change", abs_change |-> g.abs_change, pct_change |-> g.pct_change]
    ELSE [text |-> "N/A", abs_change |-> None, pct_change |-> None]

(***************************************************************************)
(* The run of the script.                                                  *)
(***************************************************************************)
NoTable == [cols |-> <<>>, names |-> <<>>, cells |-> <<>>]
NoHeadline == [set |-> FALSE, first |-> 0, latest |-> 0, abs_change |-> 0,
               pct_change |-> None]
NoGrowth == [set |-> FALSE, start |-> None, end |-> None, abs_change |-> None,
             pct_change |-> None]
NoDelta == [text |-> "", abs_change |-> None, pct_change |-> None]

\* What a run's steps have not computed yet.
SidebarUnset ==
    /\ year_range = <<0, 0>>
    /\ selected_years = <<>>
    /\ filtered_long = <<>>

TabsUnset ==
    /\ total_by_year = <<>>
    /\ headline = NoHeadline
    /\ top5 = <<>>
    /\ dept = "None"
    /\ growth = NoGrowth
    /\ delta = NoDelta
    /\ multi_depts = {}
    /\ compare_df = <<>>
    /\ latest_pivot = <<>>

Init ==
    /\ doc \in Docs
    /\ stable_sort \in BOOLEAN
    /\ pc = "load"
    /\ err = "none"
    /\ errLine = 0
    /\ df = NoTable
    /\ long_df = <<>>
    /\ year_cols = <<>>
    /\ SidebarUnset
    /\ TabsUnset

\* An uncaught exception ends the run at its line.
Raise(name, line) ==
    /\ pc' = "error"
    /\ err' = name
    /\ errLine' = line

\* Lines 55-58: the call of load_data.  read_csv raises EmptyDataError on a
\* document with no columns.
Load ==
    /\ pc = "load"
    /\ IF doc.empty
       THEN /\ Raise("EmptyDataError", 15)
            /\ UNCHANGED <<df, long_df, year_cols>>
       ELSE /\ df' = load_data(doc).df
            /\ long_df' = load_data(doc).long_df
            /\ year_cols' = load_data(doc).year_cols
            /\ pc' = "sidebar"
            /\ UNCHANGED <<err, errLine>>
    /\ UNCHANGED <<doc, stable_sort, year_range, selected_years, filtered_long,
                   total_by_year, headline, top5, dept, growth, delta,
                   multi_depts, compare_df, latest_pivot>>

\* Lines 60-72: the year bounds, the slider and the year filter.  min() of no
\* columns raises ValueError.  min_year and max_year are the least and the
\* greatest header as strings, so int(min_year) may exceed int(max_year): the
\* slider then takes the lesser of the two as its lower bound and the greater
\* as its upper bound, and the default pair is swapped into order.  The
\* script pins no Streamlit release; a slider whose two bounds are equal is
\* refused by some releases and shown by others, so both outcomes are kept.
Sidebar ==
    /\ pc = "sidebar"
    /\ IF year_cols = <<>>
       THEN /\ Raise("ValueError", 60)
            /\ UNCHANGED <<year_range, selected_years, filtered_long>>
       ELSE LET min_year == StrMin(Range(year_cols))
                max_year == StrMax(Range(year_cols))
                lo == IF ToInt(min_year) <= ToInt(max_year)
                      THEN ToInt(min_year) ELSE ToInt(max_year)
                hi == IF ToInt(min_year) <= ToInt(max_year)
                      THEN ToInt(max_year) ELSE ToInt(min_year)
            IN \/ /\ lo = hi
                  /\ Raise("StreamlitAPIException", 62)
                  /\ UNCHANGED <<year_range, selected_years, filtered_long>>
               \/ \E a, b \in SliderStops :
                      /\ lo <= a
                      /\ a <= b
                      /\ b <= hi
                      /\ year_range' = <<a, b>>
                      /\ selected_years' = SelectedYears(a, b)
                      /\ filtered_long' = FilterYears(long_df, a, b)
                      /\ pc' = "overview"
                      /\ UNCHANGED <<err, errLine>>
    /\ UNCHANGED <<doc, stable_sort, df, long_df, year_cols, total_by_year, headline, top5,
                   dept, growth, delta, multi_depts, compare_df, latest_pivot>>

\* Lines 97-158: the overview tab.  .iloc[0] raises IndexError when the year
\* has no row in total_by_year.
Overview ==
    /\ pc = "overview"
    /\ total_by_year' = TotalByYear(filtered_long)
    /\ LET latest_rows == BudgetsOfYear(total_by_year', StrMax(Range(selected_years)))
           first_rows == BudgetsOfYear(total_by_year', StrMin(Range(selected_years)))
       IN IF latest_rows = <<>>
          THEN /\ Raise("IndexError", 108)
               /\ UNCHANGED <<headline, top5>>
          ELSE IF first_rows = <<>>
          THEN /\ Raise("IndexError", 109)
               /\ UNCHANGED <<headline, top5>>
          ELSE LET total_budget_latest == latest_rows[1].Budget
                   total_budget_first == first_rows[1].Budget
                   abs_change == total_budget_latest - total_budget_first
                   pct_change == IF total_budget_first # 0
                                 THEN Frac(abs_change * 100, total_budget_first)
                                 ELSE F(0)
                   latest_year_df ==
                       LET Is(r) == r.Year = StrMax(Range(selected_years))
                       IN SelectSeq(filtered_long, Is)
               IN /\ headline' = [set |-> TRUE, first |-> total_budget_first,
                                  latest |-> total_budget_latest,
                                  abs_change |-> abs_change,
                                  pct_change |-> pct_change]
                  /\ top5' = head(SortBudgetDescending(SumByDepartment(latest_year_df),
                                                       stable_sort), TopN)
                  /\ pc' = "dept"
                  /\ UNCHANGED <<err, errLine>>
    /\ UNCHANGED <<doc, stable_sort, df, long_df, year_cols, year_range, selected_years,
                   filtered_long, dept, growth, delta, multi_depts, compare_df,
                   latest_pivot>>

\* The options of the department widgets.
DeptOptions == {r.Department : r \in Range(filtered_long)}

\* Lines 161-225: the department tab.  The selectbox returns None when it has
\* no options, and .loc[None] raises KeyError; astype(float) raises ValueError
\* on a cell that is not a number.
DeptTab ==
    /\ pc = "dept"
    /\ IF DeptOptions = {}
       THEN /\ Raise("KeyError", 178)
            /\ UNCHANGED <<dept, growth, delta>>
       ELSE \E d \in DeptOptions :
              LET row == RowOf(df, d)
                  cols == Ascending(GrowthColumns(year_cols, selected_years))
              IN /\ dept' = d
                 /\ IF \E j \in Range(cols) : ~CanFloat(row[j])
                    THEN /\ Raise("ValueError", 33)
                         /\ UNCHANGED <<growth, delta>>
                    ELSE LET g == compute_growth([p \in 1..Len(cols) |-> AsFloat(row[cols[p]])])
                         IN /\ growth' = [set |-> TRUE, start |-> g.start,
                                          end |-> g.end,
                                          abs_change |-> g.abs_change,
                                          pct_change |-> g.pct_change]
                            /\ delta' = DeltaText(g)
                            /\ pc' = "compare"
                            /\ UNCHANGED <<err, errLine>>
    /\ UNCHANGED <<doc, stable_sort, df, long_df, year_cols, year_range, selected_years,
                   filtered_long, total_by_year, headline, top5, multi_depts,
                   compare_df, latest_pivot>>

\* filtered_long[filtered_long["Department"].isin(multi_depts)]
CompareDf(recs, sel) ==
    LET Keep(r) == r.Department \in sel
    IN SelectSeq(recs, Keep)

\* Lines 228-259: the comparison tab.  pivot_table drops a column that has no
\* value (its closing dropna(how="all", axis=1)), so on no rows it returns a
\* frame without the Budget column and sort_values("Budget") raises KeyError.
CompareTab ==
    /\ pc = "compare"
    /\ \E sel \in SUBSET DeptOptions :
         /\ multi_depts' = sel
         /\ IF sel # {}
            THEN LET cdf == CompareDf(filtered_long, sel)
                     latest ==
                         LET Is(r) == r.Year = StrMax(Range(selected_years))
                         IN SelectSeq(cdf, Is)
                 IN /\ compare_df' = cdf
                    /\ IF latest = <<>>
                       THEN /\ Raise("KeyError", 256)
                            /\ UNCHANGED latest_pivot
                       ELSE /\ latest_pivot' =
                                 SortBudgetDescending(SumByDepartment(latest), stable_sort)
                            /\ pc' = "done"
                            /\ UNCHANGED <<err, errLine>>
            ELSE /\ pc' = "done"
                 /\ UNCHANGED <<compare_df, latest_pivot, err, errLine>>
    /\ UNCHANGED <<doc, stable_sort, df, long_df, year_cols, year_range,
                   selected_years, filtered_long, total_by_year, headline, top5,
                   dept, growth, delta>>

\* A widget change reruns the script from the top.  @st.cache_data returns
\* load_data's result for the same document without running it again; an
\* exception is not cached.
Rerun ==
    /\ pc \in {"done", "error"}
    /\ IF errLine = 15
       THEN /\ pc' = "load"
            /\ UNCHANGED <<df, long_df, year_cols>>
       ELSE /\ pc' = "sidebar"
            /\ UNCHANGED <<df, long_df, year_cols>>
    /\ err' = "none"
    /\ errLine' = 0
    /\ year_range' = <<0, 0>>
    /\ selected_years' = <<>>
    /\ filtered_long' = <<>>
    /\ total_by_year' = <<>>
    /\ headline' = NoHeadline
    /\ top5' = <<>>
    /\ dept' = "None"
    /\ growth' = NoGrowth
    /\ delta' = NoDelta
    /\ multi_depts' = {}
    /\ compare_df' = <<>>
    /\ latest_pivot' = <<>>
    /\ UNCHANGED <<doc, stable_sort>>

Next == Load \/ Sidebar \/ Overview \/ DeptTab \/ CompareTab \/ Rerun

Spec == Init /\ [][Next]_vars

(***************************************************************************)
(* What the claims speak of.                                               *)
(***************************************************************************)
\* load_data has returned in this run.
Loaded == pc \in {"sidebar", "overview", "dept", "compare", "done"}
          \/ (pc = "error" /\ errLine # 15)

\* The sidebar has set the year range and the filter in this run.
Filtered == pc \in {"overview", "dept", "compare", "done"}
            \/ (pc = "error" /\ errLine \in {108, 109, 178, 33, 256})

\* The overview has computed total_by_year in this run.
Totalled == pc \in {"dept", "compare", "done"}
            \/ (pc = "error" /\ errLine \in {108, 109, 178, 33, 256})

\* The overview has computed its headline metrics and its ranking in this run.
Ranked == pc \in {"dept", "compare", "done"}
          \/ (pc = "error" /\ errLine \in {178, 33, 256})

\* The text of the cell is a number.
IsNumber(t) == t = "0" \/ t = "100"
NumberOf(t) == IF t = "0" THEN 0 ELSE 100

\* The cells of the document, as (row, column) pairs.
CellsOf(d) == (1..Len(d.names)) \X (1..Len(d.cols))
BadCells(d) == {c \in CellsOf(d) : ~IsNumber(d.cells[c[1]][c[2]])}

\* The places of long_df that hold a record of department n and year label y.
RecordsAt(n, y) ==
    {p \in 1..Len(long_df) : long_df[p].Department = n /\ long_df[p].Year = y}

\* The year a label denotes lies in [a, b].
YearIn(y, a, b) == a <= ToInt(y) /\ ToInt(y) <= b

\* The sum of the budgets of a set of places of a sequence of records.
RECURSIVE SumAt(_, _)
SumAt(recs, P) ==
    IF P = {} THEN 0
    ELSE LET p == CHOOSE q \in P : TRUE
         IN recs[p].Budget + SumAt(recs, P \ {p})

\* The lowest and the highest selected year, as labels.
LowestSelected == Str(year_range[1])
HighestSelected == Str(year_range[2])

\* The places of filtered_long with a record of year label y.
FilteredOfYear(y) == {p \in 1..Len(filtered_long) : filtered_long[p].Year = y}

(***************************************************************************)
(* C1.  load_data emits exactly one record (department, year, budget) per  *)
(* cell whose value is a number and none for any other cell: with no       *)
(* missing cell there are D*Y records, a single non-numeric cell removes   *)
(* exactly its own record, and no two records share (department, year).    *)
(***************************************************************************)
C1_OneRecordPerNumericCell ==
    Loaded =>
      /\ \A c \in CellsOf(doc) :
           LET at == RecordsAt(doc.names[c[1]], doc.cols[c[2]])
               t == doc.cells[c[1]][c[2]]
           IN IF IsNumber(t)
              THEN /\ Cardinality(at) = 1
                   /\ \A p \in at : long_df[p].Budget = NumberOf(t)
              ELSE at = {}
      /\ \A p \in 1..Len(long_df) :
           \E c \in CellsOf(doc) :
              /\ long_df[p].Department = doc.names[c[1]]
              /\ long_df[p].Year = doc.cols[c[2]]
      /\ BadCells(doc) = {} => Len(long_df) = Len(doc.names) * Len(doc.cols)
      /\ Cardinality(BadCells(doc)) = 1 =>
           Len(long_df) = Len(doc.names) * Len(doc.cols) - 1
      /\ \A p, q \in 1..Len(long_df) :
           (long_df[p].Department = long_df[q].Department
              /\ long_df[p].Year = long_df[q].Year) => p = q

\* Two departments and two years with one non-numeric cell: three records.
C1_Witness ==
    /\ Loaded
    /\ Len(doc.names) = 2
    /\ Len(doc.cols) = 2
    /\ Cardinality(BadCells(doc)) = 1
    /\ Len(long_df) = 3

(***************************************************************************)
(* C2.  Once load has succeeded, no step of a view refresh raises: the     *)
(* year filter, total-by-year with the headline totals, top-N, the         *)
(* per-department growth and the comparison all produce a result.          *)
(***************************************************************************)
C2_AggregationNeverRaises ==
    pc = "error" => errLine \in {15, 60, 62}

(***************************************************************************)
(* C3.  A document that is empty, has fewer than two columns or yields no  *)
(* valid (department, year) pair fails in ingestion with a                 *)
(* MalformedInputError: load_data never returns and nothing derived runs.  *)
(***************************************************************************)
C3_MalformedInputFailsInLoad ==
    (doc.empty \/ doc.cols = <<>> \/ BadCells(doc) = CellsOf(doc)) =>
      /\ pc \in {"load", "error"}
      /\ pc = "error" => (err = "MalformedInputError" /\ errLine <= 28)

(***************************************************************************)
(* C4.  total_by_year has exactly one entry for each year that has a       *)
(* record in the filtered set, its total is the sum of the budgets of that *)
(* year's records, and the entries ascend by year taken as a number.       *)
(***************************************************************************)
C4_TotalByYearAscendingByNumber ==
    Totalled =>
      /\ \A r \in Range(filtered_long) :
           Cardinality({p \in 1..Len(total_by_year) : total_by_year[p].Year = r.Year}) = 1
      /\ \A p \in 1..Len(total_by_year) :
           /\ FilteredOfYear(total_by_year[p].Year) # {}
           /\ total_by_year[p].Budget =
                SumAt(filtered_long, FilteredOfYear(total_by_year[p].Year))
      /\ \A p \in 1..(Len(total_by_year) - 1) :
           ToInt(total_by_year[p].Year) < ToInt(total_by_year[p + 1].Year)

(***************************************************************************)
(* C5.  The growth metric of the department tab is computed from the       *)
(* department's row over all the year columns, whatever year range is      *)
(* selected: start is the value of the first year column, end the value of *)
(* the last, absolute_change = end - start, and percent_change =           *)
(* absolute_change / start * 100 when start # 0.                           *)
(***************************************************************************)
C5_GrowthOverAllYearColumns ==
    growth.set =>
      LET row == RowOf(doc, dept)
          first == row[1]
          last == row[Len(doc.cols)]
      IN /\ IF IsNumber(first)
            THEN growth.start.k = "num" /\ growth.start.d = 1
                 /\ growth.start.n = NumberOf(first)
            ELSE growth.start.k = "nan"
         /\ IF IsNumber(last)
            THEN growth.end.k = "num" /\ growth.end.d = 1
                 /\ growth.end.n = NumberOf(last)
            ELSE growth.end.k = "nan"
         /\ IF IsNumber(first) /\ IsNumber(last)
            THEN /\ growth.abs_change.k = "num" /\ growth.abs_change.d = 1
                 /\ growth.abs_change.n = NumberOf(last) - NumberOf(first)
                 /\ NumberOf(first) # 0 =>
                      /\ growth.pct_change.k = "num"
                      /\ growth.pct_change.d > 0
                      /\ growth.pct_change.n * NumberOf(first) =
                           (NumberOf(last) - NumberOf(first)) * 100 * growth.pct_change.d
            ELSE /\ growth.abs_change.k = "nan"
                 /\ (~IsNumber(first) \/ NumberOf(first) # 0) => growth.pct_change.k = "nan"

\* A year range that leaves the last year column out, and a growth metric
\* that still ends at that column's value.
C5_Witness ==
    /\ growth.set
    /\ doc.cols[Len(doc.cols)] \notin Range(selected_years)
    /\ doc.cols[1] \in Range(selected_years)
    /\ growth.start = F(100)
    /\ growth.end = F(0)
    /\ growth.pct_change = F(-100)

(***************************************************************************)
(* C6.  For a department whose start value (the cell of its first year     *)
(* column) is 0, compute_growth returns absolute_change = end - 0 and      *)
(* percent_change = None: not an infinity, not a number and never an       *)
(* exception, and the department tab shows "N/A"; percent_change is None   *)
(* only when the start value is 0.                                         *)
(***************************************************************************)
C6_ZeroStartIsUndefined ==
    /\ (dept # "None" /\ RowOf(doc, dept)[1] = "0") =>
          /\ ~(pc = "error" /\ errLine = 33)
          /\ growth.set
          /\ growth.start = F(0)
          /\ growth.pct_change = None
          /\ growth.abs_change = growth.end
          /\ delta.text = "N/A"
    /\ (growth.set /\ growth.pct_change = None) =>
          /\ growth.start = F(0)
          /\ RowOf(doc, dept)[1] = "0"
    /\ (growth.set /\ delta.text = "N/A") => growth.pct_change = None

(***************************************************************************)
(* C7.  The headline metrics respect the selected year range: the          *)
(* first-year total is total_by_year's entry of the lowest selected year,  *)
(* the latest-year total the entry of the highest, absolute change =       *)
(* latest - first, and percent change = absolute change / first * 100 when *)
(* the first-year total is not zero and exactly 0 when it is.              *)
(***************************************************************************)
C7_HeadlineOfLowestAndHighestYear ==
    headline.set =>
      /\ \E p \in 1..Len(total_by_year) :
            /\ total_by_year[p].Year = LowestSelected
            /\ headline.first = total_by_year[p].Budget
      /\ \E p \in 1..Len(total_by_year) :
            /\ total_by_year[p].Year = HighestSelected
            /\ headline.latest = total_by_year[p].Budget
      /\ headline.abs_change = headline.latest - headline.first
      /\ IF headline.first # 0
         THEN /\ headline.pct_change.k = "num"
              /\ headline.pct_change.d > 0
              /\ headline.pct_change.n * headline.first =
                   headline.abs_change * 100 * headline.pct_change.d
         ELSE headline.pct_change = F(0)

(***************************************************************************)
(* C8.  Top-N (N = 5) for the latest selected year has min(N, number of    *)
(* departments with a record in that year) entries, by budget descending,  *)
(* no omitted department has a larger budget than a returned one, and      *)
(* departments with equal budgets appear in department-name order.         *)
(***************************************************************************)
C8_TopNOfLatestYearStable ==
    Ranked =>
      LET places == FilteredOfYear(HighestSelected)
          depts == {filtered_long[p].Department : p \in places}
          Of(n) == {p \in places : filtered_long[p].Department = n}
          shown == {top5[p].Department : p \in 1..Len(top5)}
      IN /\ Len(top5) = IF Cardinality(depts) < TopN THEN Cardinality(depts) ELSE TopN
         /\ Cardinality(shown) = Len(top5)
         /\ shown \subseteq depts
         /\ \A p \in 1..Len(top5) :
               top5[p].Budget = SumAt(filtered_long, Of(top5[p].Department))
         /\ \A p \in 1..(Len(top5) - 1) : top5[p].Budget >= top5[p + 1].Budget
         /\ \A n \in depts \ shown : \A p \in 1..Len(top5) :
               SumAt(filtered_long, Of(n)) <= top5[p].Budget
         /\ \A p, q \in 1..Len(top5) :
               (p < q /\ top5[p].Budget = top5[q].Budget) =>
                  NameIdx(top5[p].Department) < NameIdx(top5[q].Department)

(***************************************************************************)
(* C9.  The comparison keeps exactly the filtered records of the selected  *)
(* departments, and its latest-year summary has exactly one row per        *)
(* selected department with a record in the latest selected year, holding  *)
(* the sum of that department's budgets of that year; a selected           *)
(* department without such a record is absent.                             *)
(***************************************************************************)
C9_ComparisonOfLatestYear ==
    (pc = "done" /\ multi_depts # {}) =>
      LET Selected(r) == r.Department \in multi_depts
          places == FilteredOfYear(HighestSelected)
          Of(n) == {p \in places : filtered_long[p].Department = n}
          present == {n \in multi_depts : Of(n) # {}}
      IN /\ compare_df = SelectSeq(filtered_long, Selected)
         /\ {latest_pivot[p].Department : p \in 1..Len(latest_pivot)} = present
         /\ Len(latest_pivot) = Cardinality(present)
         /\ \A p \in 1..Len(latest_pivot) :
               latest_pivot[p].Budget = SumAt(filtered_long, Of(latest_pivot[p].Department))

(***************************************************************************)
(* C10.  The year filter over [a, b] keeps exactly the records whose year  *)
(* y satisfies a <= y <= b, unchanged and in their order; filtering its    *)
(* result again gives the same records; the result for [a, b] is within    *)
(* the result for [a-1, b+1]; and a range that matches no record gives an  *)
(* empty record set, not an error.                                         *)
(***************************************************************************)
C10_YearFilterInclusive ==
    Filtered =>
      LET a == year_range[1]
          b == year_range[2]
          Within(r) == YearIn(r.Year, a, b)
      IN /\ filtered_long = SelectSeq(long_df, Within)
         /\ FilterYears(filtered_long, a, b) = filtered_long
         /\ Range(FilterYears(long_df, a, b)) \subseteq
               Range(FilterYears(long_df, a - 1, b + 1))
         /\ Range(filtered_long) \subseteq Range(FilterYears(long_df, a - 1, b + 1))
         /\ (\A r \in Range(long_df) : ~Within(r)) => filtered_long = <<>>
         /\ pc = "overview" => err = "none"

\* A range with both ends on year columns that keeps some records and drops
\* others.
C10_Witness ==
    /\ Filtered
    /\ year_range[1] < year_range[2]
    /\ Str(year_range[1]) \in Range(year_cols)
    /\ Str(year_range[2]) \in Range(year_cols)
    /\ \E r \in Range(filtered_long) : r.Year = Str(year_range[2])
    /\ \E r \in Range(filtered_long) : r.Year = Str(year_range[1])
    /\ Len(filtered_long) < Len(long_df)

====
